---- MODULE Spec2Model ----
(***************************************************************************)
(* State-machine model of the pet-care-assistant web client: the zustand   *)
(* chat store, the route effect of ChatPage, the sidebar handlers, the     *)
(* message composer (MessageInput / ComposerControls), the MessageItem     *)
(* edit/delete handlers, the auth-guarded routes of App and the voice      *)
(* recorder of the composer.                                               *)
(*                                                                         *)
(* Every async handler is a record in `calls`: its closure (the values it  *)
(* captured at the render that created it) and the request it awaits.     *)
(* A user action appends a call; the delivery of a response runs the       *)
(* handler up to its next await, or to its end.  The backend is kept as    *)
(* the little state the HTTP contract needs (chats, messages per chat).    *)
(***************************************************************************)
EXTENDS Integers, Sequences, FiniteSets, TLC

\* ---------------------------------------------------------------- bounds
MaxChats == 2        \* chat ids 1..MaxChats exist or can be created
MaxCalls == 2        \* handlers in flight at the same time
MaxUser == 3         \* navigations and handlers the user starts in one run
MaxTyped == 2        \* changes of the composer's text and attachments in one run
MaxFiles == 1        \* attachments pending in the composer
MaxRecorders == 2    \* MediaRecorder objects created in one run
MaxPending == 2      \* getUserMedia requests waiting for the user's answer
NumTempIds == 2      \* distinct outcomes of Math.random() in a temporary id

VARIABLES
  \* chatStore.ts
  chats, currentChat, messages, isLoadingChats, isLoadingMessages, isSending,
  \* react-router: the :chatId of the location (0 for "/")
  route,
  \* MessageInput / ComposerControls component state
  content, files, settings,
  \* MessageItem component state: the ids of the messages whose item on screen
  \* has isEditing, isUpdating set
  isEditing, isUpdating,
  \* handlers in flight
  calls,
  \* backend
  srvChats, srvMsgs, srvNextMsg, srvNextChat,
  \* budgets of the run
  nUser, nTyped,
  \* App.tsx: the location, the element on screen; authStore; localStorage; the
  \* login or register request in flight
  path, screen, authUser, isAuthenticated, authLoading, storedUser, storedToken, authCall,
  \* voice recorder of MessageInput: the component is mounted, its state and
  \* refs, the MediaRecorder objects, getUserMedia and conversions in flight
  mounted, isRecording, mediaRecorderRef, recordingChunks, recorders, pendingMedia,
  conversions,
  \* the number fields of ComposerControls (message_limit, max_tokens of its
  \* settings), the ChatSettings dialog (its settings, isSaving), and the
  \* body of the last updateChat request either of them issued
  limits, dialog, patchBody

storeVars == <<chats, currentChat, messages, isLoadingChats, isLoadingMessages, isSending>>
composerVars == <<content, files, settings>>
itemVars == <<isEditing, isUpdating>>
serverVars == <<srvChats, srvMsgs, srvNextMsg, srvNextChat>>
budgetVars == <<nUser, nTyped>>
authVars == <<path, screen, authUser, isAuthenticated, authLoading, storedUser,
              storedToken, authCall>>
recVars == <<mounted, isRecording, mediaRecorderRef, recordingChunks, recorders,
             pendingMedia, conversions>>
chatVars == <<storeVars, route, composerVars, itemVars, calls, serverVars, budgetVars>>
\* what the chat page's handlers never touch
limitVars == <<limits, dialog, patchBody>>
outerVars == <<authVars, recVars, limitVars>>
vars == <<chatVars, authVars, recVars, limitVars>>

\* ------------------------------------------------------------- data shapes
ChatIds == 1..MaxChats
Titles == {"t0", "t1"}
\* `Chat | null`: null is the record with id 0
NullChat == [id |-> 0, title |-> "", web_search_enabled |-> FALSE]
NewChat(id) == [id |-> id, title |-> "t0", web_search_enabled |-> FALSE]

\* text is a sequence of characters, so that trim() has something to do
Blank == <<>>
Spaces == <<" ">>
TextA == <<" ", "a">>
TextB == <<"b", " ">>

RECURSIVE TrimLeft(_)
TrimLeft(s) == IF s # <<>> /\ Head(s) = " " THEN TrimLeft(Tail(s)) ELSE s

RECURSIVE TrimRight(_)
TrimRight(s) ==
  IF s # <<>> /\ s[Len(s)] = " " THEN TrimRight(SubSeq(s, 1, Len(s) - 1)) ELSE s

Trim(s) == TrimRight(TrimLeft(s))

NoMsg == [id |-> 0, chat_id |-> 0, role |-> "none", content |-> <<>>,
          files |-> <<>>, is_deleted |-> FALSE]
Msg(id, chat, role, text, fs) ==
  [id |-> id, chat_id |-> chat, role |-> role, content |-> text,
   files |-> fs, is_deleted |-> FALSE]

\* { ...m, ...u }
Merge(m, u) ==
  [f \in (DOMAIN m) \cup (DOMAIN u) |-> IF f \in DOMAIN u THEN u[f] ELSE m[f]]

Ids(ms) == {ms[i].id : i \in 1..Len(ms)}
HasId(ms, id) == \E i \in 1..Len(ms) : ms[i].id = id
RemoveAt(s, i) == SubSeq(s, 1, i - 1) \o SubSeq(s, i + 1, Len(s))
Last(s) == s[Len(s)]

\* Array.prototype.findIndex, 1-based, 0 when absent
RECURSIVE FindFrom(_, _, _)
FindFrom(s, x, i) ==
  IF i > Len(s) THEN 0 ELSE IF s[i] = x THEN i ELSE FindFrom(s, x, i + 1)
FindIndex(s, x) == FindFrom(s, x, 1)

\* ------------------------------------------------------- chatStore actions
setChats(cs) == cs
addChat(cs, chat) == <<chat>> \o cs
updateChatList(cs, chatId, updates) ==
  [i \in 1..Len(cs) |-> IF cs[i].id = chatId THEN Merge(cs[i], updates) ELSE cs[i]]
\* updateChat, had it left currentChat alone
updateChatCurrentNever(cur, chatId, updates) == cur
updateChatCurrent(cur, chatId, updates) ==
  IF cur.id = chatId THEN Merge(cur, updates) ELSE cur
removeChatList(cs, chatId) == SelectSeq(cs, LAMBDA c : c.id # chatId)
removeChatCurrent(cur, chatId) == IF cur.id = chatId THEN NullChat ELSE cur
removeChatMessages(cur, ms, chatId) == IF cur.id = chatId THEN <<>> ELSE ms
\* addMessage, had it put the message first
addMessageFirst(ms, m) == <<m>> \o ms
addMessage(ms, m) == Append(ms, m)
updateMessage(ms, messageId, updates) ==
  [i \in 1..Len(ms) |-> IF ms[i].id = messageId THEN Merge(ms[i], updates) ELSE ms[i]]
removeMessage(ms, messageId) == SelectSeq(ms, LAMBDA m : m.id # messageId)

\* ---------------------------------------------------------------- handlers
\* A handler in flight: what it awaits (pc) and what its closure captured.
\*   chat   the chat id it was called for        rt    the :chatId it rendered with
\*   msg    the message prop of a MessageItem    ids   ids of `messages` at that render
\*   tmp    the temporary id of a send           text  content captured by the closure
\*   fs     files captured by the closure        done  results of the awaits of a loop
\*   patch  body of PATCH /chats/:id             rchat, rmsg  the response, once made
\*   flag   the backend has applied a DELETE     live  its component is still mounted
\*   before (history, read by no handler) the message list when a send started
BaseCall ==
  [kind |-> "none", pc |-> "none", chat |-> 0, rt |-> 0, msg |-> NoMsg, ids |-> <<>>,
   tmp |-> 0, text |-> <<>>, fs |-> <<>>, done |-> <<>>, patch |-> <<>>,
   rchat |-> NullChat, rmsg |-> NoMsg, flag |-> FALSE, live |-> TRUE,
   before |-> <<>>]
Call(fields) == Merge(BaseCall, fields)

\* one more navigation or handler started by the user
User == nUser < MaxUser /\ nUser' = nUser + 1 /\ UNCHANGED nTyped
\* one more change of the composer's text or attachments
Typed == nTyped < MaxTyped /\ nTyped' = nTyped + 1 /\ UNCHANGED nUser

IsCall(i, kind, pc) == i \in 1..Len(calls) /\ calls[i].kind = kind /\ calls[i].pc = pc
CanCall == Len(calls) < MaxCalls

\* MessageInput and ComposerControls are rendered by ChatPage only while
\* currentChat is set; unmounting drops their state and leaves the setters of
\* the handlers still in flight without effect.
Orphan(cs) ==
  [i \in 1..Len(cs) |-> IF cs[i].kind = "send" THEN [cs[i] EXCEPT !.live = FALSE] ELSE cs[i]]
CallsAfter(newCur, cs) == IF newCur.id = 0 THEN Orphan(cs) ELSE cs
\* component state after currentChat became newCur; `fresh` when the chat prop
\* is a new object, which re-runs the effect of ComposerControls
ComposerAfter(newCur, fresh) ==
  /\ content' = IF newCur.id = 0 \/ currentChat.id = 0 THEN Blank ELSE content
  /\ files' = IF newCur.id = 0 \/ currentChat.id = 0 THEN <<>> ELSE files
  /\ settings' = IF newCur.id = 0 THEN FALSE
                 ELSE IF fresh \/ currentChat.id = 0 THEN newCur.web_search_enabled
                 ELSE settings

\* ChatPage renders MessageList only while currentChat is set; MessageList
\* renders a MessageItem, keyed by its id, for each message that is not deleted,
\* unless the history is loading
RenderedIds(cur, loading, ms) ==
  IF cur.id = 0 \/ loading THEN {}
  ELSE {ms[j].id : j \in {n \in 1..Len(ms) : ~ms[n].is_deleted}}
\* an item that leaves the screen loses its component state
ItemsKept ==
  LET rendered == RenderedIds(currentChat', isLoadingMessages', messages')
  IN /\ isEditing' = isEditing \cap rendered
     /\ isUpdating' = isUpdating \cap rendered

\* GET /chats: the chats the backend holds, newest first
RECURSIVE ChatListFrom(_, _)
ChatListFrom(sc, n) ==
  IF n = 0 THEN <<>>
  ELSE (IF sc[n].id # 0 THEN <<sc[n]>> ELSE <<>>) \o ChatListFrom(sc, n - 1)
ServerChatList == ChatListFrom(srvChats, MaxChats)

\* ChatPage: the route effect for a location with a :chatId starts loadChat
loadChat(id, cs) == Append(cs, Call([kind |-> "load", pc |-> "get", chat |-> id]))

\* ChatPage: the route effect for "/" (setCurrentChat(null); setMessages([]))
NavigateRoot ==
  /\ User
  /\ route # 0
  /\ route' = 0
  /\ currentChat' = NullChat
  /\ messages' = <<>>
  /\ ComposerAfter(NullChat, TRUE)
  /\ calls' = Orphan(calls)
  /\ UNCHANGED <<chats, isLoadingChats, isLoadingMessages, isSending, serverVars, outerVars>>
  /\ ItemsKept

\* Sidebar: click on a chat (or a typed location): the route effect runs loadChat
NavigateChat(id) ==
  /\ User
  /\ id # route
  /\ CanCall
  /\ route' = id
  /\ isLoadingMessages' = TRUE
  /\ calls' = loadChat(id, calls)
  /\ UNCHANGED <<chats, currentChat, messages, isLoadingChats, isSending,
                 composerVars, serverVars, outerVars>>
  /\ ItemsKept

\* loadChat: both GETs answered
LoadChatOk(i) ==
  /\ IsCall(i, "load", "get")
  /\ srvChats[calls[i].chat].id # 0
  /\ currentChat' = srvChats[calls[i].chat]
  /\ messages' = srvMsgs[calls[i].chat]
  /\ isLoadingMessages' = FALSE
  /\ ComposerAfter(srvChats[calls[i].chat], TRUE)
  /\ calls' = RemoveAt(calls, i)
  /\ UNCHANGED <<chats, isLoadingChats, isSending, route, serverVars, budgetVars, outerVars>>
  /\ ItemsKept

\* loadChat: one GET failed: navigate('/'), whose route effect clears the chat
LoadChatFail(i) ==
  /\ IsCall(i, "load", "get")
  /\ route' = 0
  /\ isLoadingMessages' = FALSE
  /\ IF route # 0
     THEN /\ currentChat' = NullChat
          /\ messages' = <<>>
          /\ ComposerAfter(NullChat, TRUE)
          /\ calls' = Orphan(RemoveAt(calls, i))
     ELSE /\ calls' = RemoveAt(calls, i)
          /\ UNCHANGED <<currentChat, messages, composerVars>>
  /\ UNCHANGED <<chats, isLoadingChats, isSending, serverVars, budgetVars, outerVars>>
  /\ ItemsKept

\* Sidebar: loadChats, started by the mount effect
LoadChatsOk(i) ==
  /\ IsCall(i, "chats", "get")
  /\ chats' = setChats(ServerChatList)
  /\ isLoadingChats' = FALSE
  /\ calls' = RemoveAt(calls, i)
  /\ UNCHANGED <<currentChat, messages, isLoadingMessages, isSending, route,
                 composerVars, serverVars, budgetVars, outerVars>>
  /\ ItemsKept

LoadChatsFail(i) ==
  /\ IsCall(i, "chats", "get")
  /\ isLoadingChats' = FALSE
  /\ calls' = RemoveAt(calls, i)
  /\ UNCHANGED <<chats, currentChat, messages, isLoadingMessages, isSending, route,
                 composerVars, serverVars, budgetVars, outerVars>>
  /\ ItemsKept

\* ------------------------------------------------- chats: create, delete, update
\* chats the backend can still create within MaxChats, less the creates in flight
PendingCreates ==
  Cardinality({i \in 1..Len(calls) : calls[i].pc = "create" /\ calls[i].rchat.id = 0})
CanCreate == srvNextChat + PendingCreates <= MaxChats

\* ChatPage.handleStartChat (the empty state, shown while there is no current chat)
StartChat ==
  /\ User
  /\ currentChat.id = 0
  /\ CanCall /\ CanCreate
  /\ isLoadingMessages' = TRUE
  /\ calls' = Append(calls, Call([kind |-> "start", pc |-> "create"]))
  /\ UNCHANGED <<chats, currentChat, messages, isLoadingChats, isSending, route,
                 composerVars, serverVars, outerVars>>
  /\ ItemsKept

\* Sidebar.handleCreateChat (the button is disabled while isCreating)
CreateChat ==
  /\ User
  /\ \A i \in 1..Len(calls) : calls[i].kind # "create"
  /\ CanCall /\ CanCreate
  /\ calls' = Append(calls, Call([kind |-> "create", pc |-> "create"]))
  /\ UNCHANGED <<storeVars, route, composerVars, serverVars, outerVars>>
  /\ ItemsKept

\* POST /chats on the backend: the chat exists from here on, the response is under way
ServerCreateChat(i) ==
  /\ i \in 1..Len(calls) /\ calls[i].pc = "create" /\ calls[i].rchat.id = 0
  /\ srvNextChat <= MaxChats
  /\ srvChats' = [srvChats EXCEPT ![srvNextChat] = NewChat(srvNextChat)]
  /\ srvNextChat' = srvNextChat + 1
  /\ calls' = [calls EXCEPT ![i].rchat = NewChat(srvNextChat)]
  /\ UNCHANGED <<storeVars, route, composerVars, srvMsgs, srvNextMsg, budgetVars, outerVars>>
  /\ ItemsKept

\* navigate(`/chat/${id}`) and the route effect it triggers when the location changes
NavigateTo(id, cs, loading) ==
  /\ route' = id
  /\ IF id # route
     THEN /\ isLoadingMessages' = TRUE
          /\ calls' = loadChat(id, cs)
     ELSE /\ isLoadingMessages' = loading
          /\ calls' = cs

StartChatOk(i) ==
  /\ IsCall(i, "start", "create") /\ calls[i].rchat.id # 0
  /\ chats' = addChat(chats, calls[i].rchat)
  /\ currentChat' = calls[i].rchat
  /\ messages' = <<>>
  /\ ComposerAfter(calls[i].rchat, TRUE)
  /\ NavigateTo(calls[i].rchat.id, RemoveAt(calls, i), FALSE)
  /\ UNCHANGED <<isLoadingChats, isSending, serverVars, budgetVars, outerVars>>
  /\ ItemsKept

StartChatFail(i) ==
  /\ IsCall(i, "start", "create")
  /\ isLoadingMessages' = FALSE
  /\ calls' = RemoveAt(calls, i)
  /\ UNCHANGED <<chats, currentChat, messages, isLoadingChats, isSending, route,
                 composerVars, serverVars, budgetVars, outerVars>>
  /\ ItemsKept

CreateChatOk(i) ==
  /\ IsCall(i, "create", "create") /\ calls[i].rchat.id # 0
  /\ chats' = addChat(chats, calls[i].rchat)
  /\ NavigateTo(calls[i].rchat.id, RemoveAt(calls, i), isLoadingMessages)
  /\ UNCHANGED <<currentChat, messages, isLoadingChats, isSending, composerVars,
                 serverVars, budgetVars, outerVars>>
  /\ ItemsKept

CreateChatFail(i) ==
  /\ IsCall(i, "create", "create")
  /\ calls' = RemoveAt(calls, i)
  /\ UNCHANGED <<storeVars, route, composerVars, serverVars, budgetVars, outerVars>>
  /\ ItemsKept

\* handleDeleteChat, had it removed the chat from the list before its request
DeleteChatOptimistic(k, confirmed) ==
  /\ User
  /\ k \in 1..Len(chats)
  /\ IF confirmed
     THEN /\ CanCall
          /\ chats' = removeChatList(chats, chats[k].id)
          /\ calls' = Append(calls, Call([kind |-> "delete", pc |-> "delete",
                                          chat |-> chats[k].id, rt |-> route]))
     ELSE UNCHANGED <<chats, calls>>
  /\ UNCHANGED <<currentChat, messages, isLoadingChats, isLoadingMessages, isSending,
                 route, composerVars, serverVars, outerVars>>
  /\ ItemsKept

\* Sidebar.handleDeleteChat up to its await: the confirm() declined (return) or
\* accepted; chatId of the closure is the :chatId of the location at this render
DeleteChat(k, confirmed) ==
  /\ User
  /\ k \in 1..Len(chats)
  /\ IF confirmed
     THEN /\ CanCall
          /\ calls' = Append(calls, Call([kind |-> "delete", pc |-> "delete",
                                          chat |-> chats[k].id, rt |-> route]))
     ELSE UNCHANGED calls
  /\ UNCHANGED <<storeVars, route, composerVars, serverVars, outerVars>>
  /\ ItemsKept

\* DELETE /chats/:id on the backend
ServerDeleteChat(i) ==
  /\ IsCall(i, "delete", "delete") /\ ~calls[i].flag
  /\ srvChats[calls[i].chat].id # 0
  /\ srvChats' = [srvChats EXCEPT ![calls[i].chat] = NullChat]
  /\ srvMsgs' = [srvMsgs EXCEPT ![calls[i].chat] = <<>>]
  /\ calls' = [calls EXCEPT ![i].flag = TRUE]
  /\ UNCHANGED <<storeVars, route, composerVars, srvNextMsg, srvNextChat, budgetVars, outerVars>>
  /\ ItemsKept

DeleteChatOk(i) ==
  /\ IsCall(i, "delete", "delete") /\ calls[i].flag
  /\ LET id == calls[i].chat
         cur == removeChatCurrent(currentChat, id)
         gone == calls[i].rt = id /\ route # 0     \* navigate('/') changes the location
         newCur == IF gone THEN NullChat ELSE cur
     IN /\ chats' = removeChatList(chats, id)
        /\ currentChat' = newCur
        /\ messages' = IF gone THEN <<>> ELSE removeChatMessages(currentChat, messages, id)
        /\ route' = IF calls[i].rt = id THEN 0 ELSE route
        /\ ComposerAfter(newCur, FALSE)
        /\ calls' = CallsAfter(newCur, RemoveAt(calls, i))
  /\ UNCHANGED <<isLoadingChats, isLoadingMessages, isSending, serverVars, budgetVars, outerVars>>
  /\ ItemsKept

DeleteChatFail(i) ==
  /\ IsCall(i, "delete", "delete")
  /\ calls' = RemoveAt(calls, i)
  /\ UNCHANGED <<storeVars, route, composerVars, serverVars, budgetVars, outerVars>>
  /\ ItemsKept

\* Sidebar.handleRenameChat: the prompt() answered with a new, non-empty title
RenameChat(k, title) ==
  /\ User
  /\ k \in 1..Len(chats)
  /\ title # chats[k].title
  /\ CanCall
  /\ calls' = Append(calls, Call([kind |-> "rename", pc |-> "update",
                                  chat |-> chats[k].id, patch |-> [title |-> title]]))
  /\ UNCHANGED <<storeVars, route, composerVars, serverVars, outerVars>>
  /\ ItemsKept

\* ComposerControls: onChange of the web-search checkbox: setSettings, then persist
ChangeSetting ==
  /\ User
  /\ currentChat.id # 0
  /\ CanCall
  /\ settings' = ~settings
  /\ calls' = Append(calls, Call([kind |-> "setting", pc |-> "update",
                                  chat |-> currentChat.id,
                                  patch |-> [web_search_enabled |-> ~settings]]))
  /\ UNCHANGED <<storeVars, route, content, files, serverVars, outerVars>>
  /\ ItemsKept

\* PATCH /chats/:id on the backend: the response carries the chat as it is then
ServerUpdateChat(i) ==
  /\ i \in 1..Len(calls) /\ calls[i].pc = "update" /\ calls[i].rchat.id = 0
  /\ srvChats[calls[i].chat].id # 0
  /\ LET updated == Merge(srvChats[calls[i].chat], calls[i].patch)
     IN /\ srvChats' = [srvChats EXCEPT ![calls[i].chat] = updated]
        /\ calls' = [calls EXCEPT ![i].rchat = updated]
  /\ UNCHANGED <<storeVars, route, composerVars, srvMsgs, srvNextMsg, srvNextChat, budgetVars, outerVars>>
  /\ ItemsKept

\* Sidebar.handleRenameChat / ComposerControls.persist: updateChat(id, updated)
UpdateChatOk(i) ==
  /\ i \in 1..Len(calls) /\ calls[i].pc = "update" /\ calls[i].rchat.id # 0
  /\ LET id == calls[i].chat
         newCur == updateChatCurrent(currentChat, id, calls[i].rchat)
     IN /\ chats' = updateChatList(chats, id, calls[i].rchat)
        /\ currentChat' = newCur
        /\ ComposerAfter(newCur, currentChat.id = id)
  /\ calls' = RemoveAt(calls, i)
  /\ UNCHANGED <<messages, isLoadingChats, isLoadingMessages, isSending, route,
                 serverVars, budgetVars, outerVars>>
  /\ ItemsKept

UpdateChatFail(i) ==
  /\ i \in 1..Len(calls) /\ calls[i].pc = "update"
  /\ calls' = RemoveAt(calls, i)
  /\ UNCHANGED <<storeVars, route, composerVars, serverVars, budgetVars, outerVars>>
  /\ ItemsKept

\* ------------------------------------------------------------ the composer
TypedTexts == {Blank, Spaces, TextA}

\* MessageInput: onChange of the textarea
SetContent(t) ==
  /\ Typed
  /\ currentChat.id # 0
  /\ t # content
  /\ content' = t
  /\ UNCHANGED <<storeVars, route, files, settings, calls, serverVars, outerVars>>
  /\ ItemsKept

\* MessageInput.addFilesWithPreview (file picker or drop), one file at a time
AddFile ==
  /\ Typed
  /\ currentChat.id # 0
  /\ Len(files) < MaxFiles
  /\ files' = Append(files, Len(files) + 1)
  /\ UNCHANGED <<storeVars, route, content, settings, calls, serverVars, outerVars>>
  /\ ItemsKept

\* MessageInput.removeFileAt
RemoveFileAt(index) ==
  /\ Typed
  /\ currentChat.id # 0
  /\ index \in 1..Len(files)
  /\ files' = RemoveAt(files, index)
  /\ UNCHANGED <<storeVars, route, content, settings, calls, serverVars, outerVars>>
  /\ ItemsKept

TempIds == {-k : k \in 1..NumTempIds}
\* nextTempId + Math.floor(Math.random() * 1000): any id, one already in use
\* included; the ids not in use are interchangeable, so the first of them stands
\* for all of them
UsedTempIds ==
  {messages[j].id : j \in 1..Len(messages)} \cup {calls[j].tmp : j \in 1..Len(calls)}
TempChoices ==
  LET used == TempIds \cap UsedTempIds
      unused == TempIds \ used
  IN used \cup {t \in unused : \A u \in unused : u <= t}
\* the FileMetadata of a pending file before (temp-...) and after its upload
OptimisticFiles(fs) == [i \in 1..Len(fs) |-> -fs[i]]
optimisticUser(tempId, chatId, text, fs) ==
  Msg(tempId, chatId, "user", Trim(text), OptimisticFiles(fs))

\* !content.trim() && files.length === 0
NothingToSend == Trim(content) = Blank /\ Len(files) = 0

\* handleSubmit from setSending(true) to its first await
startSend(tempId) ==
  /\ CanCall
  /\ isSending' = TRUE
  /\ messages' = addMessage(messages, optimisticUser(tempId, currentChat.id, content, files))
  /\ calls' = Append(calls, Call([kind |-> "send",
                                  pc |-> IF Len(files) = 0 THEN "send" ELSE "upload",
                                  chat |-> currentChat.id, tmp |-> tempId,
                                  text |-> content, fs |-> files,
                                  before |-> messages]))

\* handleSubmit, had it no check of the content
handleSubmitUnchecked(tempId) ==
  /\ currentChat.id # 0
  /\ tempId \in TempChoices
  /\ User
  /\ startSend(tempId)
  /\ UNCHANGED <<chats, currentChat, isLoadingChats, isLoadingMessages, route,
                 composerVars, serverVars, outerVars>>
  /\ ItemsKept

\* MessageInput.handleSubmit up to its first await: it returns at once when there
\* is nothing to send
handleSubmit(tempId) ==
  /\ currentChat.id # 0
  /\ tempId \in TempChoices
  /\ User
  /\ IF NothingToSend
     THEN UNCHANGED <<isSending, messages, calls>>
     ELSE startSend(tempId)
  /\ UNCHANGED <<chats, currentChat, isLoadingChats, isLoadingMessages, route,
                 composerVars, serverVars, outerVars>>
  /\ ItemsKept

\* the send button (disabled while isSending and while there is nothing to send)
SubmitButton(tempId) == ~isSending /\ ~NothingToSend /\ handleSubmit(tempId)
\* Enter in the textarea (no check of isSending)
SubmitEnter(tempId) == handleSubmit(tempId)

\* POST /files/upload answered for the next file of the loop
UploadOk(i) ==
  /\ IsCall(i, "send", "upload")
  /\ LET c == calls[i]
         uploaded == Append(c.done, c.fs[Len(c.done) + 1])
     IN calls' = [calls EXCEPT ![i].done = uploaded,
                               ![i].pc = IF Len(uploaded) = Len(c.fs) THEN "send" ELSE "upload"]
  /\ UNCHANGED <<storeVars, route, composerVars, serverVars, budgetVars, outerVars>>
  /\ ItemsKept

\* POST /chats/:id/send on the backend: the user message and the reply are stored
ServerSend(sm, c, n) ==
  [sm EXCEPT ![c.chat] = sm[c.chat]
      \o <<Msg(n, c.chat, "user", Trim(c.text), c.done),
           Msg(n + 1, c.chat, "assistant", <<"r">>, <<>>)>>]

\* sendMessage answered: updateMessage(tempId, {files}), addMessage(assistantMessage)
SendOk(i) ==
  /\ IsCall(i, "send", "send")
  /\ srvChats[calls[i].chat].id # 0
  /\ LET c == calls[i]
         assistantMessage == Msg(srvNextMsg + 1, c.chat, "assistant", <<"r">>, <<>>)
     IN /\ srvMsgs' = ServerSend(srvMsgs, c, srvNextMsg)
        /\ srvNextMsg' = srvNextMsg + 2
        /\ messages' = addMessage(updateMessage(messages, c.tmp, [files |-> c.done]),
                                  assistantMessage)
        /\ calls' = [calls EXCEPT ![i].pc = "refresh"]
  /\ UNCHANGED <<chats, currentChat, isLoadingChats, isLoadingMessages, isSending, route,
                 composerVars, srvChats, srvNextChat, budgetVars, outerVars>>
  /\ ItemsKept

\* the end of handleSubmit, had it no refresh (as an earlier MessageInput had)
NoRefresh(i) ==
  /\ IsCall(i, "send", "refresh")
  /\ srvChats[calls[i].chat].id # 0
  /\ content' = IF calls[i].live THEN Blank ELSE content
  /\ files' = IF calls[i].live THEN <<>> ELSE files
  /\ isSending' = FALSE
  /\ calls' = RemoveAt(calls, i)
  /\ UNCHANGED <<chats, currentChat, messages, isLoadingChats, isLoadingMessages, route,
                 settings, serverVars, budgetVars, outerVars>>
  /\ ItemsKept

\* getChatMessages answered: setMessages(refreshed), setContent(''), setFiles([])
RefreshOk(i) ==
  /\ IsCall(i, "send", "refresh")
  /\ srvChats[calls[i].chat].id # 0
  /\ messages' = srvMsgs[calls[i].chat]
  /\ content' = IF calls[i].live THEN Blank ELSE content
  /\ files' = IF calls[i].live THEN <<>> ELSE files
  /\ isSending' = FALSE
  /\ calls' = RemoveAt(calls, i)
  /\ UNCHANGED <<chats, currentChat, isLoadingChats, isLoadingMessages, route, settings,
                 serverVars, budgetVars, outerVars>>
  /\ ItemsKept

\* the catch of handleSubmit, had it no finally
SubmitFailKeepsSending(i) ==
  /\ i \in 1..Len(calls) /\ calls[i].kind = "send"
  /\ messages' = removeMessage(messages, calls[i].tmp)
  /\ calls' = RemoveAt(calls, i)
  /\ UNCHANGED <<chats, currentChat, isLoadingChats, isLoadingMessages, isSending, route,
                 composerVars, serverVars, budgetVars, outerVars>>
  /\ ItemsKept

\* the catch of handleSubmit, had it sent the message again when the refresh failed
SubmitFailRetry(i) ==
  /\ i \in 1..Len(calls) /\ calls[i].kind = "send"
  /\ IF calls[i].pc = "refresh"
     THEN /\ calls' = [calls EXCEPT ![i].pc = "send"]
          /\ UNCHANGED <<messages, isSending>>
     ELSE /\ messages' = removeMessage(messages, calls[i].tmp)
          /\ isSending' = FALSE
          /\ calls' = RemoveAt(calls, i)
  /\ UNCHANGED <<chats, currentChat, isLoadingChats, isLoadingMessages, route,
                 composerVars, serverVars, budgetVars, outerVars>>
  /\ ItemsKept

\* the catch of handleSubmit, for whichever request failed: removeMessage(tempId)
SubmitFail(i) ==
  /\ i \in 1..Len(calls) /\ calls[i].kind = "send"
  /\ messages' = removeMessage(messages, calls[i].tmp)
  /\ isSending' = FALSE
  /\ calls' = RemoveAt(calls, i)
  /\ UNCHANGED <<chats, currentChat, isLoadingChats, isLoadingMessages, route,
                 composerVars, serverVars, budgetVars, outerVars>>
  /\ ItemsKept

\* ------------------------------------------------------------- MessageItem
\* MessageList renders an item for each message that is not deleted, unless the
\* history is loading; the edit and delete buttons are on user messages only
Visible(k) ==
  /\ currentChat.id # 0 /\ ~isLoadingMessages
  /\ k \in 1..Len(messages)
  /\ ~messages[k].is_deleted /\ messages[k].role = "user"

InSeq(s, x) == \E j \in 1..Len(s) : s[j] = x
isSameFiles(originalFiles, editedFiles) ==
  /\ Len(originalFiles) = Len(editedFiles)
  /\ \A j \in 1..Len(originalFiles) : InSeq(editedFiles, originalFiles[j])
removedFiles(c) == SelectSeq(c.msg.files, LAMBDA f : ~InSeq(c.fs, f))

\* the edit handler at position i was started by the item now on screen: that
\* item has isUpdating set, and an edit of the same message started later would
\* be that of a later item
EditLive(i) ==
  /\ calls[i].msg.id \in isUpdating
  /\ \A j \in (i + 1)..Len(calls) :
       ~(calls[j].kind = "edit" /\ calls[j].msg.id = calls[i].msg.id)
\* the item state after an edit handler ended: setIsEditing(false) on success,
\* setIsUpdating(false) in its finally, both without effect on an item that
\* left the screen
ItemsAfterEdit(i, leaveEdit) ==
  LET id == calls[i].msg.id
      rendered == RenderedIds(currentChat', isLoadingMessages', messages')
  IN /\ isEditing' = (IF EditLive(i) /\ leaveEdit THEN isEditing \ {id} ELSE isEditing)
                        \cap rendered
     /\ isUpdating' = (IF EditLive(i) THEN isUpdating \ {id} ELSE isUpdating) \cap rendered

\* what the user leaves in the edit form's textarea
EditedTexts == {Blank, TextA, TextB}

\* MessageItem.handleEdit: the edit and delete buttons are rendered while the
\* item is not in edit mode
handleEdit(k) ==
  /\ User
  /\ Visible(k)
  /\ messages[k].id \notin isEditing
  /\ isEditing' = isEditing \cup {messages[k].id}
  /\ UNCHANGED <<storeVars, route, composerVars, isUpdating, calls, serverVars, outerVars>>

\* MessageItem.handleCancel (the button is disabled while isUpdating)
handleCancel(k) ==
  /\ User
  /\ Visible(k)
  /\ messages[k].id \in isEditing /\ messages[k].id \notin isUpdating
  /\ isEditing' = isEditing \ {messages[k].id}
  /\ UNCHANGED <<storeVars, route, composerVars, isUpdating, calls, serverVars, outerVars>>

\* MessageItem.handleSave up to its await (the save button is in the edit form and
\* disabled while isUpdating): edited text, attachments kept or removed
EditSave(k, edited, keep) ==
  /\ User
  /\ Visible(k)
  /\ messages[k].id \in isEditing /\ messages[k].id \notin isUpdating
  /\ LET message == messages[k]
         trimmed == Trim(edited)
         editedFiles == IF keep THEN message.files ELSE <<>>
     IN IF trimmed = Blank /\ Len(editedFiles) = 0
        THEN UNCHANGED <<itemVars, calls>>
        ELSE IF trimmed = message.content /\ isSameFiles(message.files, editedFiles)
        THEN /\ isEditing' = isEditing \ {message.id}
             /\ UNCHANGED <<isUpdating, calls>>
        ELSE /\ CanCall
             /\ isUpdating' = isUpdating \cup {message.id}
             /\ calls' = Append(calls, Call([kind |-> "edit", pc |-> "patch", msg |-> message,
                                             ids |-> [j \in 1..Len(messages) |-> messages[j].id],
                                             text |-> trimmed, fs |-> editedFiles]))
             /\ UNCHANGED isEditing
  /\ UNCHANGED <<storeVars, route, composerVars, serverVars, outerVars>>

\* PATCH /messages/:id on the backend: the message is rewritten, what followed it
\* is dropped and a new reply is stored
ServerEdit(sm, c, n) ==
  LET ms == sm[c.msg.chat_id]
      idx == FindIndex([j \in 1..Len(ms) |-> ms[j].id], c.msg.id)
  IN [sm EXCEPT ![c.msg.chat_id] =
        SubSeq(ms, 1, idx - 1)
        \o <<Merge(ms[idx], [content |-> c.text, files |-> c.fs])>>
        \o <<Msg(n, c.msg.chat_id, "assistant", <<"r">>, <<>>)>>]

OnServer(m) == m.chat_id \in ChatIds /\ HasId(srvMsgs[m.chat_id], m.id)

\* handleSave after its awaits: the store updates, computed on the closure's `messages`
RECURSIVE MarkDeleted(_, _)
MarkDeleted(ms, subsequent) ==
  IF subsequent = <<>> THEN ms
  ELSE MarkDeleted(updateMessage(ms, Head(subsequent), [is_deleted |-> TRUE]),
                   Tail(subsequent))
applyEdit(ms, c, newAssistantMessage) ==
  LET edited == updateMessage(ms, c.msg.id,
                              [content |-> c.text, files |-> c.fs, isEditing |-> FALSE])
      messageIndex == FindIndex(c.ids, c.msg.id)
      marked == IF messageIndex # 0
                THEN MarkDeleted(edited, SubSeq(c.ids, messageIndex + 1, Len(c.ids)))
                ELSE edited
  IN addMessage(marked, newAssistantMessage)

\* updateMessage answered
EditUpdateOk(i) ==
  /\ IsCall(i, "edit", "patch")
  /\ OnServer(calls[i].msg)
  /\ LET c == calls[i]
         newAssistantMessage == Msg(srvNextMsg, c.msg.chat_id, "assistant", <<"r">>, <<>>)
     IN /\ srvMsgs' = ServerEdit(srvMsgs, c, srvNextMsg)
        /\ srvNextMsg' = srvNextMsg + 1
        /\ IF Len(removedFiles(c)) = 0
           THEN /\ messages' = applyEdit(messages, c, newAssistantMessage)
                /\ calls' = RemoveAt(calls, i)
           ELSE /\ messages' = messages
                /\ calls' = [calls EXCEPT ![i].pc = "delfile", ![i].rmsg = newAssistantMessage]
  /\ UNCHANGED <<chats, currentChat, isLoadingChats, isLoadingMessages, isSending, route,
                 composerVars, srvChats, srvNextChat, budgetVars, outerVars>>
  /\ IF Len(removedFiles(calls[i])) = 0 THEN ItemsAfterEdit(i, TRUE) ELSE ItemsKept

\* the catch of handleSave, had it closed the edit form
EditUpdateFailLeavesEdit(i) ==
  /\ IsCall(i, "edit", "patch")
  /\ calls' = RemoveAt(calls, i)
  /\ UNCHANGED <<storeVars, route, composerVars, serverVars, budgetVars, outerVars>>
  /\ ItemsAfterEdit(i, TRUE)

\* updateMessage failed: the catch alerts, the finally runs setIsUpdating(false)
EditUpdateFail(i) ==
  /\ IsCall(i, "edit", "patch")
  /\ calls' = RemoveAt(calls, i)
  /\ UNCHANGED <<storeVars, route, composerVars, serverVars, budgetVars, outerVars>>
  /\ ItemsAfterEdit(i, FALSE)

\* MessageItem.handleDelete up to its await: the confirm() declined (return) or
\* accepted
DeleteMessage(k, confirmed) ==
  /\ User
  /\ Visible(k)
  /\ messages[k].id \notin isEditing
  /\ IF confirmed
     THEN /\ CanCall
          /\ calls' = Append(calls, Call([kind |-> "delmsg", pc |-> "delete",
                                          msg |-> messages[k]]))
     ELSE UNCHANGED calls
  /\ UNCHANGED <<storeVars, route, composerVars, serverVars, outerVars>>
  /\ ItemsKept

\* deleteMessage answered
DeleteMessageOk(i) ==
  /\ IsCall(i, "delmsg", "delete")
  /\ OnServer(calls[i].msg)
  /\ LET m == calls[i].msg
     IN /\ srvMsgs' = [srvMsgs EXCEPT ![m.chat_id] = removeMessage(srvMsgs[m.chat_id], m.id)]
        /\ IF Len(m.files) = 0
           THEN /\ messages' = removeMessage(messages, m.id)
                /\ calls' = RemoveAt(calls, i)
           ELSE /\ messages' = messages
                /\ calls' = [calls EXCEPT ![i].pc = "delfile"]
  /\ UNCHANGED <<chats, currentChat, isLoadingChats, isLoadingMessages, isSending, route,
                 composerVars, srvChats, srvNextMsg, srvNextChat, budgetVars, outerVars>>
  /\ ItemsKept

DeleteMessageFail(i) ==
  /\ IsCall(i, "delmsg", "delete")
  /\ calls' = RemoveAt(calls, i)
  /\ UNCHANGED <<storeVars, route, composerVars, serverVars, budgetVars, outerVars>>
  /\ ItemsKept

\* one deleteFile of the loop answered (ok) or failed (caught, logged): the loop
\* goes on either way; after the last one the handler updates the store
FilesToDelete(c) == IF c.kind = "edit" THEN removedFiles(c) ELSE c.msg.files
\* the deleteFile loop, had a failed deleteFile ended the handler
deleteFileAborts(i, ok) ==
  /\ i \in 1..Len(calls) /\ calls[i].pc = "delfile"
  /\ LET c == calls[i]
         done == Append(c.done, ok)
     IN IF ~ok
        THEN /\ calls' = RemoveAt(calls, i)
             /\ messages' = messages
        ELSE IF Len(done) < Len(FilesToDelete(c))
        THEN /\ calls' = [calls EXCEPT ![i].done = done]
             /\ messages' = messages
        ELSE /\ calls' = RemoveAt(calls, i)
             /\ messages' = IF c.kind = "edit" THEN applyEdit(messages, c, c.rmsg)
                            ELSE removeMessage(messages, c.msg.id)
  /\ UNCHANGED <<chats, currentChat, isLoadingChats, isLoadingMessages, isSending, route,
                 composerVars, serverVars, budgetVars, outerVars>>
  /\ ItemsKept
deleteFileDone(i, ok) ==
  /\ i \in 1..Len(calls) /\ calls[i].pc = "delfile"
  /\ LET c == calls[i]
         done == Append(c.done, ok)
     IN IF Len(done) < Len(FilesToDelete(c))
        THEN /\ calls' = [calls EXCEPT ![i].done = done]
             /\ messages' = messages
        ELSE /\ calls' = RemoveAt(calls, i)
             /\ messages' = IF c.kind = "edit" THEN applyEdit(messages, c, c.rmsg)
                            ELSE removeMessage(messages, c.msg.id)
  /\ UNCHANGED <<chats, currentChat, isLoadingChats, isLoadingMessages, isSending, route,
                 composerVars, serverVars, budgetVars, outerVars>>
  /\ IF calls[i].kind = "edit" /\ Len(calls[i].done) + 1 = Len(FilesToDelete(calls[i]))
     THEN ItemsAfterEdit(i, TRUE)
     ELSE ItemsKept
DeleteFileOk(i) == deleteFileDone(i, TRUE)
DeleteFileFail(i) == deleteFileDone(i, FALSE)

\* ------------------------------------------------------- App and authStore
NoUser == "null"
Users == {"u1", "u2"}
\* localStorage 'user': absent, the JSON of a user, or text JSON.parse rejects
StoredUsers == {NoUser, "u1", "u2", "bad"}
PrivatePaths == {"/", "/chat/1", "/chat/2"}
PublicPaths == {"/login", "/register"}
Paths == PrivatePaths \cup PublicPaths

\* PrivateRoute, had it not waited for the auth store
PrivateRouteNoLoading(authed, loading, children) ==
  IF authed THEN children ELSE "Navigate /login"
PrivateRoute(authed, loading, children) ==
  IF loading THEN "loading-screen" ELSE IF authed THEN children ELSE "Navigate /login"
PublicRoute(authed, loading, children) ==
  IF loading THEN "loading-screen" ELSE IF ~authed THEN children ELSE "Navigate /"
\* the element <Routes> renders for a location
App(p, authed, loading) ==
  CASE p = "/login" -> PublicRoute(authed, loading, "LoginPage")
    [] p = "/register" -> PublicRoute(authed, loading, "RegisterPage")
    [] p = "/" -> PrivateRoute(authed, loading, "ChatPage")
    [] p \in {"/chat/1", "/chat/2"} -> PrivateRoute(authed, loading, "ChatPage")

Render == screen' = App(path', isAuthenticated', authLoading')

\* a page load at location p: the auth store as created, no handler left
PageLoad(p) ==
  /\ path' = p
  /\ authUser' = NoUser /\ isAuthenticated' = FALSE /\ authLoading' = TRUE
  /\ authCall' = FALSE

\* the user opens a location of the application (typed address, reload)
Visit(p) ==
  /\ PageLoad(p)
  /\ UNCHANGED <<storedUser, storedToken, chatVars, recVars, limitVars>>
  /\ Render

\* a location reached without a page load (a <Link>, the history buttons)
History(p) ==
  /\ ~authLoading
  /\ p # path
  /\ path' = p
  /\ UNCHANGED <<authUser, isAuthenticated, authLoading, storedUser, storedToken,
                 authCall, chatVars, recVars, limitVars>>
  /\ Render

\* authStore.init, the mount effect of App
AuthInit ==
  /\ authLoading
  /\ authLoading' = FALSE
  /\ IF storedUser # NoUser /\ storedToken /\ storedUser # "bad"
     THEN authUser' = storedUser /\ isAuthenticated' = TRUE
     ELSE authUser' = NoUser /\ isAuthenticated' = FALSE
  /\ UNCHANGED <<path, storedUser, storedToken, authCall, chatVars, recVars, limitVars>>
  /\ Render

\* <Navigate to=...> on screen: the location changes
Redirect ==
  /\ screen \in {"Navigate /login", "Navigate /"}
  /\ path' = IF screen = "Navigate /login" THEN "/login" ELSE "/"
  /\ UNCHANGED <<authUser, isAuthenticated, authLoading, storedUser, storedToken,
                 authCall, chatVars, recVars, limitVars>>
  /\ Render

\* LoginPage / RegisterPage handleSubmit up to its await
AuthSubmit ==
  /\ screen \in {"LoginPage", "RegisterPage"}
  /\ ~authCall
  /\ authCall' = TRUE
  /\ UNCHANGED <<path, screen, authUser, isAuthenticated, authLoading, storedUser,
                 storedToken, chatVars, recVars, limitVars>>

\* login / register answered: localStorage written, setUser(user), navigate('/')
AuthOk(user) ==
  /\ authCall
  /\ authCall' = FALSE
  /\ storedUser' = user /\ storedToken' = TRUE
  /\ authUser' = user /\ isAuthenticated' = (user # NoUser)
  /\ path' = "/"
  /\ UNCHANGED <<authLoading, chatVars, recVars, limitVars>>
  /\ Render

\* login / register refused with a status other than 401: the error is shown
AuthFail ==
  /\ authCall
  /\ authCall' = FALSE
  /\ UNCHANGED <<path, screen, authUser, isAuthenticated, authLoading, storedUser,
                 storedToken, chatVars, recVars, limitVars>>

\* the response interceptor on a 401 of any request: localStorage cleared,
\* window.location.href = '/login'
Unauthorized ==
  /\ authCall \/ screen = "ChatPage"
  /\ storedUser' = NoUser /\ storedToken' = FALSE
  /\ PageLoad("/login")
  /\ UNCHANGED <<chatVars, recVars, limitVars>>
  /\ Render

\* authStore.logout, the button of the Sidebar
Logout ==
  /\ screen = "ChatPage"
  /\ storedUser' = NoUser /\ storedToken' = FALSE
  /\ authUser' = NoUser /\ isAuthenticated' = FALSE
  /\ UNCHANGED <<path, authLoading, authCall, chatVars, recVars, limitVars>>
  /\ Render

\* ------------------------------------------------ MessageInput voice recorder
\* A MediaRecorder: state "recording", "stopping" (its dataavailable and stop
\* events are queued) or "inactive", and whether it captured any audio.
Recorder(state, audio) == [state |-> state, audio |-> audio]
WavFile(r) == 100 + r
BlobFile(r) == 200 + r

\* the stream's tracks are stopped: a recorder still recording on it stops
StopTracks(rs, r) ==
  IF r # 0 /\ rs[r].state = "recording" THEN [rs EXCEPT ![r].state = "stopping"] ELSE rs

cleanupRecorder(rs) ==
  /\ recordingChunks' = <<>>
  /\ recorders' = StopTracks(rs, mediaRecorderRef)
  /\ mediaRecorderRef' = 0

\* addFilesWithPreview: setFiles of a component that is still mounted
addFilesWithPreview(fs, f) == IF mounted THEN Append(fs, f) ELSE fs

\* handleToggleRecording while not recording, up to await getUserMedia
StartRecording ==
  /\ mounted /\ ~isRecording /\ ~isSending
  /\ pendingMedia < MaxPending
  /\ pendingMedia' = pendingMedia + 1
  /\ UNCHANGED <<mounted, isRecording, mediaRecorderRef, recordingChunks, recorders,
                 conversions, chatVars, authVars, limitVars>>

\* getUserMedia answered with a stream: new MediaRecorder, start()
MediaGranted ==
  /\ pendingMedia > 0
  /\ Len(recorders) < MaxRecorders
  /\ pendingMedia' = pendingMedia - 1
  /\ recorders' = Append(recorders, Recorder("recording", FALSE))
  /\ mediaRecorderRef' = Len(recorders) + 1
  /\ recordingChunks' = <<>>
  /\ isRecording' = mounted
  /\ UNCHANGED <<mounted, conversions, chatVars, authVars, limitVars>>

\* getUserMedia refused: the catch of handleToggleRecording
MediaDenied ==
  /\ pendingMedia > 0
  /\ pendingMedia' = pendingMedia - 1
  /\ cleanupRecorder(recorders)
  /\ isRecording' = FALSE
  /\ UNCHANGED <<mounted, conversions, chatVars, authVars, limitVars>>

\* the microphone delivers sound to a recorder
Capture(r) ==
  /\ r \in 1..Len(recorders)
  /\ recorders[r].state = "recording" /\ ~recorders[r].audio
  /\ recorders' = [recorders EXCEPT ![r].audio = TRUE]
  /\ UNCHANGED <<mounted, isRecording, mediaRecorderRef, recordingChunks, pendingMedia,
                 conversions, chatVars, authVars, limitVars>>

\* handleToggleRecording while recording: mediaRecorderRef.current?.stop();
\* stop() of a recorder that is not recording throws, which the catch handles
StopRecording ==
  /\ mounted /\ isRecording /\ ~isSending
  /\ isRecording' = FALSE
  /\ IF mediaRecorderRef = 0
     THEN UNCHANGED <<mediaRecorderRef, recordingChunks, recorders>>
     ELSE IF recorders[mediaRecorderRef].state = "recording"
     THEN /\ recorders' = [recorders EXCEPT ![mediaRecorderRef].state = "stopping"]
          /\ UNCHANGED <<mediaRecorderRef, recordingChunks>>
     ELSE cleanupRecorder(recorders)
  /\ UNCHANGED <<mounted, pendingMedia, conversions, chatVars, authVars, limitVars>>

\* the events of a stopped recorder: ondataavailable pushes a non-empty chunk,
\* onstop makes the blob and starts the conversion; with an empty blob the
\* async body runs to its finally at once
RecorderStopped(r) ==
  /\ r \in 1..Len(recorders)
  /\ recorders[r].state = "stopping"
  /\ LET chunks == IF recorders[r].audio THEN Append(recordingChunks, r)
                   ELSE recordingChunks
         stopped == [recorders EXCEPT ![r].state = "inactive"]
     IN IF Len(chunks) > 0
        THEN /\ recordingChunks' = chunks
             /\ recorders' = stopped
             /\ conversions' = Append(conversions, r)
             /\ UNCHANGED mediaRecorderRef
        ELSE /\ cleanupRecorder(stopped)
             /\ UNCHANGED conversions
  /\ UNCHANGED <<mounted, isRecording, pendingMedia, chatVars, authVars, limitVars>>

\* blobToWavFile resolved: addFilesWithPreview([wavFile]); finally cleanupRecorder
ConvertOk(i) ==
  /\ i \in 1..Len(conversions)
  /\ files' = addFilesWithPreview(files, WavFile(conversions[i]))
  /\ conversions' = RemoveAt(conversions, i)
  /\ cleanupRecorder(recorders)
  /\ UNCHANGED <<mounted, isRecording, pendingMedia, storeVars, route, content, settings,
                 itemVars, calls, serverVars, budgetVars, authVars, limitVars>>

\* blobToWavFile rejected: the recorded blob becomes the file; finally cleanupRecorder
ConvertFail(i) ==
  /\ i \in 1..Len(conversions)
  /\ files' = addFilesWithPreview(files, BlobFile(conversions[i]))
  /\ conversions' = RemoveAt(conversions, i)
  /\ cleanupRecorder(recorders)
  /\ UNCHANGED <<mounted, isRecording, pendingMedia, storeVars, route, content, settings,
                 itemVars, calls, serverVars, budgetVars, authVars, limitVars>>

\* MessageInput unmounts (ChatPage renders it only while currentChat is set):
\* its state goes, the cleanup of its effect runs cleanupRecorder
Unmount ==
  /\ mounted
  /\ mounted' = FALSE
  /\ isRecording' = FALSE
  /\ files' = <<>> /\ content' = Blank
  /\ cleanupRecorder(recorders)
  /\ UNCHANGED <<pendingMedia, conversions, storeVars, route, settings, itemVars, calls,
                 serverVars, budgetVars, authVars, limitVars>>

\* ------------------------------------------- settings: the number fields
\* a JavaScript number as these handlers meet it: an integer or NaN
Num(n) == [nan |-> FALSE, n |-> n]
NaN == [nan |-> TRUE, n |-> 0]

Digits == <<"0", "1", "2", "3", "4", "5", "6", "7", "8", "9">>
DigitVal(c) == (CHOOSE d \in 1..10 : Digits[d] = c) - 1

\* e.target.value of an <input type="number">: what the user typed when it is
\* a valid number, the empty string otherwise; min and max do not restrict it
NumberTexts ==
  { <<>>, <<"0">>, <<"-", "5">>, <<"7">>, <<"5", "0", "1">> }

RECURSIVE LeadingDigits(_)
LeadingDigits(t) ==
  IF Len(t) = 0 \/ (\A d \in 1..10 : Digits[d] # t[1]) THEN <<>>
  ELSE <<t[1]>> \o LeadingDigits(Tail(t))
RECURSIVE DecimalValue(_)
DecimalValue(ds) ==
  IF Len(ds) = 0 THEN 0
  ELSE DecimalValue(SubSeq(ds, 1, Len(ds) - 1)) * 10 + DigitVal(ds[Len(ds)])
\* parseInt(text, 10): an optional sign, then the longest run of digits; NaN
\* when there is no digit
parseInt(t) ==
  LET signed == Len(t) > 0 /\ t[1] \in {"-", "+"}
      ds == LeadingDigits(IF signed THEN Tail(t) ELSE t)
  IN IF Len(ds) = 0 THEN NaN
     ELSE Num(IF signed /\ t[1] = "-" THEN 0 - DecimalValue(ds) ELSE DecimalValue(ds))
\* v || d on numbers: NaN and 0 are falsy
OrElse(v, d) == IF v.nan \/ v.n = 0 THEN Num(d) ELSE v

\* a field of the JSON body of PATCH /chats/:id: JSON.stringify writes NaN as null
Absent == [kind |-> "absent", n |-> 0]
ToJson(v) == IF v.nan THEN [kind |-> "null", n |-> 0] ELSE [kind |-> "number", n |-> v.n]

\* the limits chat 1 has on the backend
ServerLimits == [message_limit |-> Num(10), max_tokens |-> Num(2000)]

\* ComposerControls: onChange of "Сообщений в контексте": setSettings, then persist
SetMessageLimit(text) ==
  /\ currentChat.id # 0
  /\ LET value == OrElse(parseInt(text), 1)
     IN /\ limits' = [limits EXCEPT !.message_limit = value]
        /\ patchBody' = <<[message_limit |-> ToJson(value), max_tokens |-> Absent]>>
  /\ UNCHANGED <<dialog, chatVars, authVars, recVars>>

\* ComposerControls: onChange of "Макс. токенов": setSettings, then persist
SetMaxTokens(text) ==
  /\ currentChat.id # 0
  /\ LET value == OrElse(parseInt(text), 2000)
     IN /\ limits' = [limits EXCEPT !.max_tokens = value]
        /\ patchBody' = <<[message_limit |-> Absent, max_tokens |-> ToJson(value)]>>
  /\ UNCHANGED <<dialog, chatVars, authVars, recVars>>

\* ChatSettings: not on screen; inFlight: an updateChat of handleSave is unanswered
NoDialog ==
  [open |-> FALSE, isLoading |-> FALSE, loaded |-> FALSE, isSaving |-> FALSE,
   inFlight |-> FALSE, message_limit |-> Num(0), max_tokens |-> Num(0)]

\* ChatSettings mounts: settings null, isLoading true, the effect starts loadSettings
OpenSettings ==
  /\ currentChat.id # 0
  /\ ~dialog.open
  /\ dialog' = [dialog EXCEPT !.open = TRUE, !.isLoading = TRUE]
  /\ UNCHANGED <<limits, patchBody, chatVars, authVars, recVars>>

\* loadSettings: getChatSettings answered
LoadSettingsOk ==
  /\ dialog.open /\ dialog.isLoading
  /\ dialog' = [dialog EXCEPT !.isLoading = FALSE, !.loaded = TRUE,
                              !.message_limit = ServerLimits.message_limit,
                              !.max_tokens = ServerLimits.max_tokens]
  /\ UNCHANGED <<limits, patchBody, chatVars, authVars, recVars>>

\* loadSettings: getChatSettings failed; the panel keeps showing the loader
LoadSettingsFail ==
  /\ dialog.open /\ dialog.isLoading
  /\ dialog' = [dialog EXCEPT !.isLoading = FALSE]
  /\ UNCHANGED <<limits, patchBody, chatVars, authVars, recVars>>

\* onClose (the overlay, the close button, "Отмена"): the dialog leaves the
\* screen, a save in flight goes on
CloseSettings ==
  /\ dialog.open
  /\ dialog' = [NoDialog EXCEPT !.inFlight = dialog.inFlight]
  /\ UNCHANGED <<limits, patchBody, chatVars, authVars, recVars>>

\* ChatSettings: onChange of "Лимит сообщений в контексте"
DialogMessageLimit(text) ==
  /\ dialog.open /\ dialog.loaded
  /\ dialog' = [dialog EXCEPT !.message_limit = parseInt(text)]
  /\ UNCHANGED <<limits, patchBody, chatVars, authVars, recVars>>

\* ChatSettings: onChange of "Ограничение токенов"
DialogMaxTokens(text) ==
  /\ dialog.open /\ dialog.loaded
  /\ dialog' = [dialog EXCEPT !.max_tokens = parseInt(text)]
  /\ UNCHANGED <<limits, patchBody, chatVars, authVars, recVars>>

\* ChatSettings.handleSave ("Сохранить" is disabled while isSaving): one save
\* in flight at a time
SaveSettings ==
  /\ dialog.open /\ dialog.loaded /\ ~dialog.isSaving
  /\ ~dialog.inFlight
  /\ dialog' = [dialog EXCEPT !.isSaving = TRUE, !.inFlight = TRUE]
  /\ patchBody' = <<[message_limit |-> ToJson(dialog.message_limit),
                     max_tokens |-> ToJson(dialog.max_tokens)]>>
  /\ UNCHANGED <<limits, chatVars, authVars, recVars>>

\* handleSave: updateChat answered: onClose()
SaveSettingsOk ==
  /\ dialog.inFlight
  /\ dialog' = NoDialog
  /\ UNCHANGED <<limits, patchBody, chatVars, authVars, recVars>>

\* handleSave: updateChat failed: the dialog stays, isSaving is reset
SaveSettingsFail ==
  /\ dialog.inFlight
  /\ dialog' = [dialog EXCEPT !.isSaving = FALSE, !.inFlight = FALSE]
  /\ UNCHANGED <<limits, patchBody, chatVars, authVars, recVars>>

\* ------------------------------------------------------------ specification
\* The backend at the start: chat 1 with one exchange, whose user message has a file
InitServer ==
  /\ srvChats = [c \in ChatIds |-> IF c = 1 THEN NewChat(1) ELSE NullChat]
  /\ srvMsgs = [c \in ChatIds |->
                  IF c = 1 THEN <<Msg(1, 1, "user", <<"a">>, <<1>>),
                                  Msg(2, 1, "assistant", <<"r">>, <<>>)>>
                  ELSE <<>>]
  /\ srvNextMsg = 3
  /\ srvNextChat = 2

\* ChatPage mounted at "/" or at "/chat/1" by a signed-in user: the store as
\* created, the mount effects done: loadChats of the Sidebar in flight, and
\* loadChat of the route effect when the location has a :chatId
InitChat ==
  /\ chats = <<>> /\ currentChat = NullChat /\ messages = <<>>
  /\ isLoadingChats = TRUE /\ isSending = FALSE
  /\ route \in {0, 1}
  /\ isLoadingMessages = (route # 0)
  /\ content = Blank /\ files = <<>> /\ settings = FALSE
  /\ isEditing = {} /\ isUpdating = {}
  /\ calls = IF route = 0 THEN <<Call([kind |-> "chats", pc |-> "get"])>>
             ELSE loadChat(route, <<Call([kind |-> "chats", pc |-> "get"])>>)
  /\ nUser = 0 /\ nTyped = 0
  /\ InitServer

\* the guards of App as a signed-in user at "/" leaves them
AuthIdle ==
  /\ path = "/" /\ screen = "ChatPage"
  /\ authUser = "u1" /\ isAuthenticated = TRUE /\ authLoading = FALSE
  /\ storedUser = "u1" /\ storedToken = TRUE /\ authCall = FALSE
\* the recorder of a composer that has not recorded
RecIdle ==
  /\ mounted = TRUE /\ isRecording = FALSE /\ mediaRecorderRef = 0
  /\ recordingChunks = <<>> /\ recorders = <<>> /\ pendingMedia = 0
  /\ conversions = <<>>

\* the number fields of a chat whose limits are in range, no dialog
LimitsIdle ==
  /\ limits = ServerLimits
  /\ dialog = NoDialog /\ patchBody = <<>>

Init == InitChat /\ AuthIdle /\ RecIdle /\ LimitsIdle

CallIdx == 1..MaxCalls
Next ==
  \/ NavigateRoot
  \/ \E id \in ChatIds : NavigateChat(id)
  \/ \E i \in CallIdx : LoadChatOk(i)
  \/ \E i \in CallIdx : LoadChatFail(i)
  \/ \E i \in CallIdx : LoadChatsOk(i)
  \/ \E i \in CallIdx : LoadChatsFail(i)
  \/ StartChat
  \/ CreateChat
  \/ \E i \in CallIdx : ServerCreateChat(i)
  \/ \E i \in CallIdx : StartChatOk(i)
  \/ \E i \in CallIdx : StartChatFail(i)
  \/ \E i \in CallIdx : CreateChatOk(i)
  \/ \E i \in CallIdx : CreateChatFail(i)
  \/ \E k \in 1..Len(chats), confirmed \in BOOLEAN : DeleteChat(k, confirmed)
  \/ \E i \in CallIdx : ServerDeleteChat(i)
  \/ \E i \in CallIdx : DeleteChatOk(i)
  \/ \E i \in CallIdx : DeleteChatFail(i)
  \/ \E k \in 1..Len(chats), title \in Titles : RenameChat(k, title)
  \/ ChangeSetting
  \/ \E i \in CallIdx : ServerUpdateChat(i)
  \/ \E i \in CallIdx : UpdateChatOk(i)
  \/ \E i \in CallIdx : UpdateChatFail(i)
  \/ \E t \in TypedTexts : SetContent(t)
  \/ AddFile
  \/ \E index \in 1..MaxFiles : RemoveFileAt(index)
  \/ \E tempId \in TempIds : SubmitButton(tempId)
  \/ \E tempId \in TempIds : SubmitEnter(tempId)
  \/ \E i \in CallIdx : UploadOk(i)
  \/ \E i \in CallIdx : SendOk(i)
  \/ \E i \in CallIdx : RefreshOk(i)
  \/ \E i \in CallIdx : SubmitFail(i)
  \/ \E k \in 1..Len(messages) : handleEdit(k)
  \/ \E k \in 1..Len(messages) : handleCancel(k)
  \/ \E k \in 1..Len(messages), edited \in EditedTexts, keep \in BOOLEAN :
       EditSave(k, edited, keep)
  \/ \E i \in CallIdx : EditUpdateOk(i)
  \/ \E i \in CallIdx : EditUpdateFail(i)
  \/ \E k \in 1..Len(messages), confirmed \in BOOLEAN : DeleteMessage(k, confirmed)
  \/ \E i \in CallIdx : DeleteMessageOk(i)
  \/ \E i \in CallIdx : DeleteMessageFail(i)
  \/ \E i \in CallIdx : DeleteFileOk(i)
  \/ \E i \in CallIdx : DeleteFileFail(i)

Spec == Init /\ [][Next]_vars

\* every request is answered: a handler in flight goes on
Respond ==
  \E i \in CallIdx :
    \/ LoadChatOk(i) \/ LoadChatFail(i) \/ LoadChatsOk(i) \/ LoadChatsFail(i)
    \/ ServerCreateChat(i) \/ StartChatOk(i) \/ StartChatFail(i)
    \/ CreateChatOk(i) \/ CreateChatFail(i)
    \/ ServerDeleteChat(i) \/ DeleteChatOk(i) \/ DeleteChatFail(i)
    \/ ServerUpdateChat(i) \/ UpdateChatOk(i) \/ UpdateChatFail(i)
    \/ UploadOk(i) \/ SendOk(i) \/ RefreshOk(i) \/ SubmitFail(i)
    \/ EditUpdateOk(i) \/ EditUpdateFail(i)
    \/ DeleteMessageOk(i) \/ DeleteMessageFail(i)
    \/ DeleteFileOk(i) \/ DeleteFileFail(i)
SpecLive == Spec /\ WF_vars(Respond)

\* The guards of App, from a page load at any location with any localStorage
InitRoute ==
  /\ path \in Paths
  /\ authUser = NoUser /\ isAuthenticated = FALSE /\ authLoading = TRUE
  /\ screen = App(path, isAuthenticated, authLoading)
  /\ storedUser \in StoredUsers /\ storedToken \in BOOLEAN
  /\ authCall = FALSE
  /\ InitChat /\ route = 0 /\ RecIdle /\ LimitsIdle
NextRoute ==
  \/ \E p \in Paths : Visit(p)
  \/ \E p \in Paths : History(p)
  \/ AuthInit
  \/ Redirect
  \/ AuthSubmit
  \/ \E user \in Users : AuthOk(user)
  \/ AuthFail
  \/ Unauthorized
  \/ Logout
SpecRoute == InitRoute /\ [][NextRoute]_vars

\* The voice recorder of a composer open on chat 1
InitRec ==
  /\ RecIdle /\ AuthIdle /\ InitServer /\ LimitsIdle
  /\ chats = <<NewChat(1)>> /\ currentChat = NewChat(1) /\ messages = srvMsgs[1]
  /\ isLoadingChats = FALSE /\ isLoadingMessages = FALSE /\ isSending = FALSE
  /\ route = 1
  /\ content = Blank /\ files = <<>> /\ settings = FALSE
  /\ isEditing = {} /\ isUpdating = {}
  /\ calls = <<>>
  /\ nUser = 0 /\ nTyped = 0
NextRec ==
  \/ StartRecording
  \/ MediaGranted
  \/ MediaDenied
  \/ \E r \in 1..MaxRecorders : Capture(r)
  \/ StopRecording
  \/ \E r \in 1..MaxRecorders : RecorderStopped(r)
  \/ \E i \in 1..MaxRecorders : ConvertOk(i)
  \/ \E i \in 1..MaxRecorders : ConvertFail(i)
  \/ Unmount
SpecRec == InitRec /\ [][NextRec]_vars

\* The number fields of ComposerControls and of ChatSettings, for chat 1 open
InitLimits ==
  /\ RecIdle /\ AuthIdle /\ InitServer
  /\ chats = <<NewChat(1)>> /\ currentChat = NewChat(1) /\ messages = srvMsgs[1]
  /\ isLoadingChats = FALSE /\ isLoadingMessages = FALSE /\ isSending = FALSE
  /\ route = 1
  /\ content = Blank /\ files = <<>> /\ settings = FALSE
  /\ isEditing = {} /\ isUpdating = {}
  /\ calls = <<>>
  /\ nUser = 0 /\ nTyped = 0
  /\ limits = ServerLimits
  /\ dialog = NoDialog /\ patchBody = <<>>
NextLimits ==
  \/ \E text \in NumberTexts : SetMessageLimit(text)
  \/ \E text \in NumberTexts : SetMaxTokens(text)
  \/ OpenSettings
  \/ LoadSettingsOk
  \/ LoadSettingsFail
  \/ CloseSettings
  \/ \E text \in NumberTexts : DialogMessageLimit(text)
  \/ \E text \in NumberTexts : DialogMaxTokens(text)
  \/ SaveSettings
  \/ SaveSettingsOk
  \/ SaveSettingsFail
SpecLimits == InitLimits /\ [][NextLimits]_vars

\* ------------------------------------------------------------------ claims
\* a response was handled: a handler in flight ended or went on to its next await
Returned ==
  \/ Len(calls') < Len(calls)
  \/ Len(calls') = Len(calls) /\ \E i \in 1..Len(calls) : calls'[i].pc # calls[i].pc
\* a handler started
Started == Len(calls') = Len(calls) + 1
\* handleSubmit started: the optimistic message is appended
SubmitStarted == Started /\ Last(calls').kind = "send"
\* the route effect of ChatPage for "/"
RootEffect ==
  /\ route # 0 /\ route' = 0
  /\ currentChat' = NullChat /\ messages' = <<>> /\ chats' = chats
SendInFlight(cs, tempId) == \E i \in 1..Len(cs) : cs[i].kind = "send" /\ cs[i].tmp = tempId
NoTempId(ms) == \A j \in 1..Len(ms) : ms[j].id > 0

\* C1 as stated.  A step that starts a handler (issues its first request)
\* changes neither the chat list, nor the current chat, nor the message list:
\* these change only once the request has returned.
C1_Unidirectional ==
  [][Started => UNCHANGED <<chats, currentChat, messages>>]_vars

\* C1 amended.  The chat list, the current chat and the message list change
\* only in a step that handles a response, with two exceptions: the start of
\* a send, which appends the optimistic message before any request, and the
\* route effect for "/", which clears the current chat with no request.
C1_StoreAfterReturn ==
  [][<<chats, currentChat, messages>>' # <<chats, currentChat, messages>>
       => \/ Returned
          \/ SubmitStarted /\ UNCHANGED <<chats, currentChat>>
               /\ messages' = Append(messages, Last(messages'))
          \/ RootEffect]_vars

\* C1 witness: a rename has returned and reached the chat list while a send
\* that has appended its optimistic message still awaits its request.
C1_Witness ==
  /\ \E k \in 1..Len(chats) : chats[k].title = "t1"
  /\ \E i \in 1..Len(calls) :
       calls[i].kind = "send" /\ calls[i].pc = "send" /\ HasId(messages, calls[i].tmp)

\* the start of a send appends exactly one optimistic user message at the end
\* of the list, before any upload or send request is answered
OptimisticAppended ==
  SubmitStarted =>
    LET c == Last(calls')
        m == Last(messages')
    IN /\ Len(messages') = Len(messages) + 1
       /\ SubSeq(messages', 1, Len(messages)) = messages
       /\ m.id = c.tmp /\ m.id < 0
       /\ m.role = "user" /\ ~m.is_deleted /\ m.chat_id = currentChat.id
       /\ c.pc \in {"upload", "send"} /\ c.done = <<>>

C3_SendSettles ==
  [][\A i \in CallIdx :
       RefreshOk(i) /\ calls' = <<>>
         => /\ messages' = srvMsgs'[calls[i].chat]
            /\ NoTempId(messages')
            /\ content' = Blank /\ files' = <<>>]_vars

\* C3 amended.  When the refresh of a send returns and nothing else is in
\* flight, the message list is the list the server holds for that chat and no
\* temporary id remains; the text and attachments of the composer that sent
\* are empty, while a composer mounted since then keeps what was typed in it.
C3_SendSettlesMounted ==
  [][\A i \in CallIdx :
       RefreshOk(i) /\ calls' = <<>>
         => /\ messages' = srvMsgs'[calls[i].chat]
            /\ NoTempId(messages')
            /\ calls[i].live => content' = Blank /\ files' = <<>>
            /\ ~calls[i].live => content' = content /\ files' = files]_vars

\* C3 witness: a send with an attachment has completed, nothing is in flight,
\* and the list shows the exchange the server stored.
C3_Witness ==
  /\ calls = <<>> /\ currentChat.id = 1 /\ ~isSending
  /\ Len(messages) = 4 /\ messages = srvMsgs[1]
  /\ messages[3].files # <<>>
  /\ content = Blank /\ files = <<>>

\* C4 as stated.  When a request of a send fails, the optimistic message is
\* removed, the message list is what it was when the send started (checked
\* where the list has only grown since, so that no other handler replaced
\* it), and the composer's text and attachments are unchanged.
C4_FailureRestores ==
  [][\A i \in CallIdx :
       SubmitFail(i) /\ Len(messages) >= Len(calls[i].before)
                     /\ SubSeq(messages, 1, Len(calls[i].before)) = calls[i].before
         => /\ ~HasId(messages', calls[i].tmp)
            /\ messages' = calls[i].before
            /\ content' = content /\ files' = files]_vars

\* C5 as stated.  With no update request in flight, the setting shown by the
\* composer controls equals the current chat's in the store, which equals the
\* server's.
C5_SettingsAgree ==
  (/\ currentChat.id # 0
   /\ srvChats[currentChat.id].id # 0
   /\ \A i \in 1..Len(calls) : calls[i].pc # "update")
    => /\ settings = currentChat.web_search_enabled
       /\ currentChat.web_search_enabled = srvChats[currentChat.id].web_search_enabled

\* C6.  The chat page is on screen only while the auth store has finished
\* loading and reports an authenticated user; once loaded, a private location
\* without authentication renders the redirect to /login and a public location
\* with authentication the redirect to /; while loading, the loading screen
\* is rendered, neither a page nor a redirect.
C6_AuthGuard ==
  /\ screen = "ChatPage" => isAuthenticated /\ ~authLoading /\ path \in PrivatePaths
  /\ ~authLoading /\ ~isAuthenticated /\ path \in PrivatePaths => screen = "Navigate /login"
  /\ ~authLoading /\ isAuthenticated /\ path \in PublicPaths => screen = "Navigate /"
  /\ authLoading => screen = "loading-screen"

\* C6 witness: an unauthenticated visit to a chat is being redirected, with a
\* stored user that has no token.
C6_Witness ==
  /\ path = "/chat/1" /\ screen = "Navigate /login"
  /\ storedUser = "u1" /\ ~storedToken

\* the files the recording of recorder r has added to the composer
FilesOf(r) == Cardinality({j \in 1..Len(files) : files[j] \in {WavFile(r), BlobFile(r)}})
Converting(r) == \E i \in 1..Len(conversions) : conversions[i] = r
ConversionEnded == Len(conversions') < Len(conversions)

\* C7.  While the composer that recorded is mounted, the end of the conversion
\* of a stopped recording, success or failure, adds exactly one audio file to
\* its attachments, so a stopped recording with audio has one file once
\* converted and never more; a recording that captured no audio adds no file.
C7_StopAddsOneFile ==
  /\ [][ConversionEnded
          => IF mounted
             THEN /\ Len(files') = Len(files) + 1
                  /\ SubSeq(files', 1, Len(files)) = files
                  /\ Last(files') >= 100
             ELSE files' = files]_vars
  /\ [](\A r \in 1..Len(recorders) :
          /\ FilesOf(r) <= 1
          /\ ~recorders[r].audio => FilesOf(r) = 0
          /\ mounted /\ recorders[r].audio /\ recorders[r].state = "inactive"
               /\ ~Converting(r) => FilesOf(r) = 1)

\* calls of a kind in flight
CountKind(cs, kind) == Cardinality({i \in 1..Len(cs) : cs[i].kind = kind})
EndedKind(kind) == CountKind(calls', kind) < CountKind(calls, kind)

\* C8.  The step that ends an operation sets its flag to false, on success and
\* on failure: isLoadingMessages for loadChat and handleStartChat (whose
\* navigation may start the next loadChat at once), isSending for
\* handleSubmit, isLoadingChats for loadChats.  With every request answered,
\* the flags are false again and again, whatever the user starts.
C8_FlagsReset ==
  /\ [][/\ EndedKind("send") => ~isSending'
        /\ EndedKind("chats") => ~isLoadingChats'
        /\ EndedKind("load") => ~isLoadingMessages'
        /\ EndedKind("start")
             => ~isLoadingMessages' \/ CountKind(calls', "load") > CountKind(calls, "load")]_vars
  /\ []<>(~isSending /\ ~isLoadingMessages /\ ~isLoadingChats)

\* C8 witness: every operation the user started has ended, after a chat was
\* started from the empty state, and no flag is left set.
C8_Witness ==
  /\ calls = <<>> /\ nUser = MaxUser
  /\ currentChat.id = 2 /\ Len(chats) = 2
  /\ ~isSending /\ ~isLoadingMessages /\ ~isLoadingChats

\* the catch of a handler runs for the call at position i
Failure(i) ==
  \/ LoadChatFail(i) \/ LoadChatsFail(i) \/ StartChatFail(i) \/ CreateChatFail(i)
  \/ DeleteChatFail(i) \/ UpdateChatFail(i) \/ SubmitFail(i) \/ EditUpdateFail(i)
  \/ DeleteMessageFail(i)

\* C9.  The step that handles a failed request ends its handler and issues
\* no request; a failed attachment deletion moves on to the next attachment,
\* so each is attempted once; a request is only ever added by a user action or
\* as the next step of a handler whose request succeeded.
C9_NoRetry ==
  [][/\ \A i \in CallIdx :
          Failure(i) => calls' \in {RemoveAt(calls, i), Orphan(RemoveAt(calls, i))}
     /\ \A i \in CallIdx :
          DeleteFileFail(i) => \/ calls' = RemoveAt(calls, i)
                               \/ /\ Len(calls') = Len(calls)
                                  /\ Len(calls'[i].done) = Len(calls[i].done) + 1
     /\ Started => nUser' = nUser + 1]_vars

\* C9 witness: loadChats has failed (the list is empty although the server
\* holds a chat) and nothing is in flight.
C9_Witness ==
  /\ calls = <<>> /\ chats = <<>> /\ ~isLoadingChats
  /\ srvChats[1].id = 1 /\ nUser = 0

\* C10.  When the response of a rename or a setting change is handled, every
\* entry of the chat list with that id, and currentChat if it has that id,
\* hold the values of the response; every other entry, and a currentChat with
\* another id, are unchanged.
C10_UpdateChatFrame ==
  [][\A i \in CallIdx :
       UpdateChatOk(i) =>
         LET id == calls[i].chat
             updated == calls[i].rchat
         IN /\ Len(chats') = Len(chats)
            /\ \A k \in 1..Len(chats) :
                 chats'[k] = IF chats[k].id = id THEN updated ELSE chats[k]
            /\ currentChat' = IF currentChat.id = id THEN updated ELSE currentChat]_vars

\* C10 witness: the current chat was renamed; its entry and currentChat hold
\* the new title and the other chat of the list is as it was.
C10_Witness ==
  /\ Len(chats) = 2 /\ currentChat.id = 1 /\ currentChat.title = "t1"
  /\ \E k \in 1..2 : chats[k] = currentChat
  /\ \E k \in 1..2 : chats[k] = NewChat(2)

\* C11 as stated.  Whenever there is a current chat, every message of the
\* message list belongs to it (has its chat_id), also while a send, an edit
\* or a load for an earlier chat is still in flight.
C11_ChatIdConsistent ==
  currentChat.id # 0 => \A j \in 1..Len(messages) : messages[j].chat_id = currentChat.id

LoadInFlight == \E i \in 1..Len(calls) : calls[i].kind = "load"

\* C12 as stated.  Once no chat load is in flight, the current chat is the
\* chat named by the location: on "/" there is no current chat and the
\* message list is empty, on "/chat/:chatId" the current chat has that id.
C12_LastNavigationWins ==
  ~LoadInFlight =>
    IF route = 0 THEN currentChat = NullChat /\ messages = <<>>
    ELSE currentChat.id = route

\* the sends in flight that the mounted composer started
LiveSends == {i \in 1..Len(calls) : calls[i].kind = "send" /\ calls[i].live}

\* C13 as stated.  The composer has at most one send in flight, isSending is
\* true while a send is in flight, and a submit made while isSending is true
\* starts no send.
C13_SingleSend ==
  /\ [](Cardinality(LiveSends) <= 1)
  /\ []((\E i \in 1..Len(calls) : calls[i].kind = "send") => isSending)
  /\ [][isSending => ~SubmitStarted]_vars

\* C14 as stated.  Every temporary id is negative and every server-assigned
\* id positive, and no two messages of the message list share an id, so that
\* updateMessage or removeMessage with a temporary id touches one message.
C14_TempIdsUnique ==
  /\ \A i \in 1..Len(calls) : calls[i].kind = "send" => calls[i].tmp < 0
  /\ \A c \in ChatIds : \A j \in 1..Len(srvMsgs[c]) : srvMsgs[c][j].id > 0
  /\ \A j, k \in 1..Len(messages) : messages[j].id = messages[k].id => j = k

\* handleSave ends with success for the call at position i: its store updates run
EditDone(i) ==
  /\ i \in 1..Len(calls) /\ calls[i].kind = "edit"
  /\ \/ EditUpdateOk(i) /\ Len(removedFiles(calls[i])) = 0
     \/ (DeleteFileOk(i) \/ DeleteFileFail(i)) /\ Len(calls') < Len(calls)
\* the position of the message with an id in a list, 0 when absent
IndexOfId(ms, id) == FindIndex([j \in 1..Len(ms) |-> ms[j].id], id)

\* C15 as stated.  When an edit ends with success and the edited message is
\* in the message list, that message holds the trimmed new content and the
\* kept attachments, every message after it except the last is marked
\* is_deleted, and the last message is the new assistant reply, not deleted;
\* whatever happened to the list while the request was in flight.
C15_EditApplied ==
  [][\A i \in CallIdx :
       EditDone(i) /\ HasId(messages, calls[i].msg.id) =>
         LET c == calls[i]
             at == IndexOfId(messages', c.msg.id)
         IN /\ at # 0
            /\ messages'[at].content = c.text /\ Trim(c.text) = c.text
            /\ messages'[at].files = c.fs
            /\ \A j \in (at + 1)..(Len(messages') - 1) : messages'[j].is_deleted
            /\ Last(messages').role = "assistant" /\ ~Last(messages').is_deleted
            /\ Last(messages').id = (IF c.pc = "patch" THEN srvNextMsg ELSE c.rmsg.id)]_vars

\* the early returns of handleSave, for the message and the form's contents
EditBlank(message, edited, keep) ==
  Trim(edited) = Blank /\ (IF keep THEN message.files ELSE <<>>) = <<>>
EditSame(message, edited, keep) ==
  /\ ~EditBlank(message, edited, keep)
  /\ Trim(edited) = message.content
  /\ isSameFiles(message.files, IF keep THEN message.files ELSE <<>>)

\* C16.  A save leaves the message list unchanged: with blank text and no
\* attachment, or with the text and the attachments of the message, it issues
\* no request; otherwise it issues one.  A failed update request leaves the
\* list unchanged and its item, if still on screen, in edit mode.  The list
\* changes by an edit only in the step that ends a successful handleSave,
\* after the server has applied the update.
C16_EditAfterAccept ==
  [][/\ \A k \in 1..Len(messages), edited \in EditedTexts, keep \in BOOLEAN :
          EditSave(k, edited, keep) =>
            /\ messages' = messages
            /\ IF EditBlank(messages[k], edited, keep) \/ EditSame(messages[k], edited, keep)
               THEN calls' = calls
               ELSE Started /\ Last(calls').kind = "edit" /\ Last(calls').pc = "patch"
     /\ \A i \in CallIdx :
          EditUpdateFail(i) =>
            /\ messages' = messages
            /\ isEditing' = isEditing
            /\ EditLive(i) => calls[i].msg.id \in isEditing'
     /\ \A i \in CallIdx :
          /\ i <= Len(calls) /\ calls[i].kind = "edit"
          /\ EditUpdateOk(i) \/ DeleteFileOk(i) \/ DeleteFileFail(i)
          /\ messages' # messages
          => EditDone(i) /\ (calls[i].pc = "patch" => srvMsgs' # srvMsgs)]_vars

\* C16 witness: a save that changed nothing has ended (its text was blank, or
\* its update request failed): nothing is in flight, the item is still in edit
\* mode and the list is the one the server holds.
C16_Witness ==
  /\ calls = <<>> /\ nUser = 2 /\ nTyped = 0
  /\ isEditing = {1} /\ isUpdating = {}
  /\ currentChat.id = 1 /\ messages = srvMsgs[1] /\ Len(messages) = 2

\* handleDelete ends with the removal for the call at position i
DeleteMessageDone(i) ==
  /\ i \in 1..Len(calls) /\ calls[i].kind = "delmsg"
  /\ DeleteMessageOk(i) \/ DeleteFileOk(i) \/ DeleteFileFail(i)
  /\ Len(calls') < Len(calls)

\* C17.  handleDelete leaves the message list unchanged when it starts,
\* declined or confirmed (declined, it issues no request), and when its delete
\* request fails; it changes the list only in its last step, which removes
\* the messages with the id of the deleted message and nothing else, after the
\* server has deleted the message; that last step comes whether the deletion
\* of the attachments succeeded or failed.
C17_DeleteAfterAccept ==
  [][/\ \A k \in 1..Len(messages), confirmed \in BOOLEAN :
          DeleteMessage(k, confirmed) =>
            /\ messages' = messages
            /\ IF confirmed THEN Started /\ Last(calls').msg = messages[k]
               ELSE calls' = calls
     /\ \A i \in CallIdx : DeleteMessageFail(i) => messages' = messages
     /\ \A i \in CallIdx :
          /\ i <= Len(calls) /\ calls[i].kind = "delmsg"
          /\ DeleteMessageOk(i) \/ DeleteFileOk(i) \/ DeleteFileFail(i)
          => IF DeleteMessageDone(i)
             THEN /\ messages' = removeMessage(messages, calls[i].msg.id)
                  /\ ~HasId(messages', calls[i].msg.id)
                  /\ ~HasId(srvMsgs'[calls[i].msg.chat_id], calls[i].msg.id)
             ELSE messages' = messages
     /\ \A i \in CallIdx :
          /\ i <= Len(calls) /\ calls[i].kind = "delmsg" /\ DeleteFileFail(i)
          /\ Len(calls[i].done) + 1 = Len(calls[i].msg.files)
          => DeleteMessageDone(i)]_vars

\* C17 witness: the user message of chat 1, which has an attachment, was
\* deleted: it is neither in the list nor on the server, the reply is still
\* there, nothing is in flight.
C17_Witness ==
  /\ calls = <<>> /\ currentChat.id = 1
  /\ Len(messages) = 1 /\ messages[1].id = 2 /\ messages = srvMsgs[1]

\* C18 as stated.  handleDeleteChat changes nothing in the store when it
\* starts (declined, it issues no request) and when its request fails.  When
\* the request succeeded the chat is removed from the chat list and is gone
\* on the server; if it is the current chat, currentChat becomes null, the
\* message list empty and the location "/"; if not, currentChat and the
\* message list are unchanged.
C18_DeleteChatFrame ==
  [][/\ \A k \in 1..Len(chats), confirmed \in BOOLEAN :
          DeleteChat(k, confirmed) =>
            /\ UNCHANGED <<storeVars, route>>
            /\ ~confirmed => calls' = calls
     /\ \A i \in CallIdx : DeleteChatFail(i) => UNCHANGED <<storeVars, route>>
     /\ \A i \in CallIdx :
          DeleteChatOk(i) =>
            /\ chats' = removeChatList(chats, calls[i].chat)
            /\ srvChats[calls[i].chat].id = 0
            /\ IF currentChat.id = calls[i].chat
               THEN currentChat' = NullChat /\ messages' = <<>> /\ route' = 0
               ELSE currentChat' = currentChat /\ messages' = messages]_vars

\* C19 as stated.  A load that succeeded sets currentChat and the message
\* list in one step, both from the responses for the chat id it was called
\* with.  A load that failed sets neither; after it the location is "/",
\* there is no current chat and the message list is empty.
C19_LoadChatTogether ==
  [][/\ \A i \in CallIdx :
          LoadChatOk(i) =>
            /\ currentChat' = srvChats[calls[i].chat] /\ currentChat'.id = calls[i].chat
            /\ messages' = srvMsgs[calls[i].chat]
            /\ \A j \in 1..Len(messages') : messages'[j].chat_id = calls[i].chat
     /\ \A i \in CallIdx :
          LoadChatFail(i) =>
            /\ currentChat' \in {currentChat, NullChat} /\ messages' \in {messages, <<>>}
            /\ route' = 0 /\ currentChat' = NullChat /\ messages' = <<>>]_vars

\* C20.  A submit (Enter in the textarea: the send button is disabled then)
\* while the text is blank or whitespace and no attachment is pending issues
\* no request, adds no message, leaves isSending as it is, and leaves the
\* composer's text and attachments, the rest of the store and the backend
\* unchanged.
C20_BlankSubmit ==
  [][\A tempId \in TempIds :
       /\ NothingToSend => ~ENABLED SubmitButton(tempId)
       /\ SubmitEnter(tempId) /\ NothingToSend
            => UNCHANGED <<calls, messages, isSending, content, files, settings,
                           chats, currentChat, isLoadingChats, isLoadingMessages,
                           route, serverVars, itemVars>>]_vars

\* C20 witness: the state a blank submit leads to: in chat 1 the composer
\* holds only a space and no attachment, the user has acted once since the
\* page was opened, nothing is in flight, the list is the one the server
\* holds and isSending is false.
C20_Witness ==
  /\ currentChat.id = 1 /\ content = Spaces /\ files = <<>>
  /\ nUser = 1 /\ nTyped = 1
  /\ calls = <<>> /\ ~isSending /\ messages = srvMsgs[1] /\ Len(messages) = 2
  /\ chats = <<>>

\* C21.  The chat list of the store never holds two entries with the same chat
\* id, in every reachable state: also when a chat is created (by the sidebar or
\* by the empty state) while GET /chats is in flight, whichever response
\* arrives first.
C21_ChatIdsUnique ==
  \A j, k \in 1..Len(chats) : chats[j].id = chats[k].id => j = k

\* C22.  Every body the settings controls send to the server carries, when it
\* carries a message limit, an integer from 1 to 100, and when it carries a
\* token limit, an integer from 500 to 8000, whatever was typed into the
\* number fields (nothing, zero, a negative or an out-of-range number).
C22_LimitsInRange ==
  \A k \in 1..Len(patchBody) :
    /\ patchBody[k].message_limit # Absent
         => /\ patchBody[k].message_limit.kind = "number"
            /\ patchBody[k].message_limit.n \in 1..100
    /\ patchBody[k].max_tokens # Absent
         => /\ patchBody[k].max_tokens.kind = "number"
            /\ patchBody[k].max_tokens.n \in 500..8000

====
